---------------------------- MODULE Spec2Model ----------------------------
(***************************************************************************)
(* A model of the latex-rs document tree and of its rendering protocol     *)
(* (trait Writable, struct Latex).                                         *)
(*                                                                         *)
(* Rendered text is a sequence of symbols.  A symbol is an indivisible     *)
(* piece of output: the backslash, one punctuation character, the line     *)
(* break, one keyword of a format string, or one character of a string     *)
(* supplied by the caller.  A caller's string is a sequence of symbols,    *)
(* the empty string is << >>, and concatenation of text is \o.             *)
(*                                                                         *)
(* write_to is modelled by the sequence of write operations it issues on   *)
(* the sink: one operation per write!/writeln! of the source, in the       *)
(* order of the traversal.  The writer processes (Latex::write) execute    *)
(* that sequence one operation at a time.                                  *)
(***************************************************************************)
EXTENDS Naturals, Sequences, FiniteSets, TLC

VARIABLES
    tree,       \* the value under construction / being rendered (a Writable)
    pc,         \* pc[w]: "idle" | "run" | "ok" | "err" | "panic" of writer w's last write call
    pos,        \* pos[w]: write operations the last write call issued on the sink
    sink,       \* sink[w]: what the sink of writer w holds
    fault,      \* fault[w]: the error the sink reported to the last write call
    ret,        \* ret[w]: what the last write call returned
    rendered,   \* rendered[w]: the value the last write call of w was given
    base,       \* base[w]: what the sink held when the last write call began
    count       \* count[w]: write calls made through writer w so far

vars == <<tree, pc, pos, sink, fault, ret, rendered, base, count>>

(***************************************************************************)
(* Bounds of the model.                                                    *)
(***************************************************************************)
\* Children pushed into one composite node by the builder actions.
MaxElements == 2
\* Parameters of one kind (mandatory, optional) of an environment.
MaxParams == 2
\* Write calls made through one Latex writer.
MaxWrites == 2
\* Symbols a sink takes from a write before it reports an error.
MaxPartial == 3

\* The Latex writers, each with a sink of its own.
Writers == {1, 2}

(***************************************************************************)
(* Symbols.                                                                *)
(***************************************************************************)
BS == "\\"
NL == "\n"

None == [some |-> FALSE, v |-> << >>]
Some(x) == [some |-> TRUE, v |-> x]

RECURSIVE Concat(_)
\* The concatenation of a sequence of sequences.
Concat(ss) == IF ss = << >> THEN << >> ELSE Head(ss) \o Concat(Tail(ss))

RECURSIVE Join(_, _)
\* [String]::join(sep)
Join(ss, sep) ==
    IF ss = << >> THEN << >>
    ELSE IF Len(ss) = 1 THEN ss[1]
    ELSE ss[1] \o sep \o Join(Tail(ss), sep)

\* One write!/writeln! on the sink, with the text it formats.
W(d) == [k |-> "w", d |-> d]
\* unreachable!(): the traversal panics here.
Panic == [k |-> "panic", d |-> << >>]


(***************************************************************************)
(* Inline text: text.rs                                                    *)
(***************************************************************************)
Plain(s) == [t |-> "Plain", s |-> s]
Bold(e) == [t |-> "Bold", e |-> e]
Italic(e) == [t |-> "Italic", e |-> e]
\* TextElement::Link((String, String)): the tuple's fields .0 and .1
Link(s0, s1) == [t |-> "Link", s0 |-> s0, s1 |-> s1]
InlineMath(s) == [t |-> "InlineMath", s |-> s]

RECURSIVE FmtTextElement(_)
\* impl Display for TextElement
FmtTextElement(e) ==
    CASE e.t = "Plain" -> e.s
      [] e.t = "Link" -> <<BS, "href", "{">> \o e.s0 \o <<"}", "{">> \o e.s1 \o <<"}">>
      [] e.t = "InlineMath" -> <<"$">> \o e.s \o <<"$">>
      [] e.t = "Bold" -> <<BS, "textbf", "{">> \o FmtTextElement(e.e) \o <<"}">>
      [] e.t = "Italic" -> <<BS, "textit", "{">> \o FmtTextElement(e.e) \o <<"}">>

\* impl Writable for TextElement: one write! per element
TextElementWrites(e) ==
    CASE e.t = "Plain" -> <<W(e.s)>>
      [] e.t = "Link" -> <<W(<<BS, "href", "{">> \o e.s0 \o <<"}", "{">> \o e.s1 \o <<"}">>)>>
      [] e.t = "InlineMath" -> <<W(<<"$">> \o e.s \o <<"$">>)>>
      [] e.t = "Bold" -> <<W(<<BS, "textbf", "{">> \o FmtTextElement(e.e) \o <<"}">>)>>
      [] e.t = "Italic" -> <<W(<<BS, "textit", "{">> \o FmtTextElement(e.e) \o <<"}">>)>>

\* struct Text
Text(es) == [kind |-> "Text", elements |-> es]
\* impl From<&str> for Text
TextFrom(s) == Text(<<Plain(s)>>)

\* a Text that ends every element with a line break
TextWritesLines(t) ==
    Concat([i \in 1..Len(t.elements) |-> TextElementWrites(t.elements[i]) \o <<W(<<NL>>)>>])

\* impl Writable for Text: every element in order, nothing between them
TextWrites(t) == Concat([i \in 1..Len(t.elements) |-> TextElementWrites(t.elements[i])])

\* impl Display for Text
FmtText(t) == Concat([i \in 1..Len(t.elements) |-> FmtTextElement(t.elements[i])])

(***************************************************************************)
(* One-line commands: commands.rs                                          *)
(***************************************************************************)
\* the bare commands with the keywords of two of them exchanged
CommandTexExchanged(name) ==
    CASE name = "TableOfContents" -> "tableofcontents"
      [] name = "TitlePage" -> "maketitle"
      [] name = "ClearPage" -> "newpage"
      [] name = "BigSkip" -> "bigskip"
      [] name = "NewPage" -> "clearpage"
      [] name = "Appendix" -> "appendix"

\* create_commands!: the keyword of each bare command
CommandTex(name) ==
    CASE name = "TableOfContents" -> "tableofcontents"
      [] name = "TitlePage" -> "maketitle"
      [] name = "ClearPage" -> "clearpage"
      [] name = "BigSkip" -> "bigskip"
      [] name = "NewPage" -> "newpage"
      [] name = "Appendix" -> "appendix"

LineCommands == {"TableOfContents", "TitlePage", "ClearPage", "BigSkip", "NewPage", "Appendix"}

\* Command::<bare variant>
LineCommand(name) == [kind |-> "Command", c |-> name]
\* Label::new, Ref::new, Bibliographystyle::new, Bibliography::new (one String field)
Label(label) == [kind |-> "Command", c |-> "Label", label |-> label]
Ref(text) == [kind |-> "Command", c |-> "Ref", text |-> text]
Bibliographystyle(style) == [kind |-> "Command", c |-> "Bibliographystyle", style |-> style]
Bibliography(file) == [kind |-> "Command", c |-> "Bibliography", file |-> file]
\* Bibitem::new(text: Text, cite: String)
Bibitem(text, cite) == [kind |-> "Command", c |-> "Bibitem", text |-> text, cite |-> cite]
\* Cite::new(reference: String, subcit: Option<Text>)
Cite(reference, subcit) == [kind |-> "Command", c |-> "Cite", reference |-> reference, subcit |-> subcit]
\* Framebox::new(text: Text, size: Option<String>, pos: Option<String>)
Framebox(text, size, p) == [kind |-> "Command", c |-> "Framebox", text |-> text, size |-> size, pos |-> p]

\* @format {name}
FormatBrace(v) == <<W(<<"{">> \o v \o <<"}">>)>>
\* @format name
FormatBare(v) == <<W(v)>>
\* an optional field that writes its brackets also when it is None
FormatOptionalAlways(o) == <<W(<<"[">> \o o.v \o <<"]">>)>>

\* @format [name]: written only when the field is Some
FormatOptional(o) == IF o.some THEN <<W(<<"[">> \o o.v \o <<"]">>)>> ELSE << >>

\* impl Writable for Command and for each command struct
CommandWrites(c) ==
    IF c.c \in LineCommands THEN <<W(<<BS, CommandTex(c.c), NL>>)>>
    ELSE
      CASE c.c = "Label" -> <<W(<<BS, "label">>)>> \o FormatBrace(c.label) \o <<W(<<NL>>)>>
        [] c.c = "Ref" -> <<W(<<BS, "ref">>)>> \o FormatBrace(c.text) \o <<W(<<NL>>)>>
        [] c.c = "Bibitem" ->
             <<W(<<BS, "bibitem">>)>> \o FormatBrace(c.cite) \o FormatBare(FmtText(c.text))
                 \o <<W(<<NL>>)>>
        [] c.c = "Bibliographystyle" ->
             <<W(<<BS, "bibliographystyle">>)>> \o FormatBrace(c.style) \o <<W(<<NL>>)>>
        [] c.c = "Bibliography" ->
             <<W(<<BS, "bibliography">>)>> \o FormatBrace(c.file) \o <<W(<<NL>>)>>
        [] c.c = "Cite" ->
             <<W(<<BS, "cite">>)>>
                 \o FormatOptional(IF c.subcit.some THEN Some(FmtText(c.subcit.v)) ELSE None)
                 \o FormatBrace(c.reference) \o <<W(<<NL>>)>>
        [] c.c = "Framebox" ->
             <<W(<<BS, "framebox">>)>> \o FormatOptional(c.size) \o FormatOptional(c.pos)
                 \o FormatBrace(FmtText(c.text)) \o <<W(<<NL>>)>>

(***************************************************************************)
(* Math blocks: equations.rs                                               *)
(***************************************************************************)
\* struct AlignEquation / struct Equation
AlignEquation(text, label, numbered) == [text |-> text, label |-> label, numbered |-> numbered]
Equation(text, label, numbered) ==
    [kind |-> "Equation", text |-> text, label |-> label, numbered |-> numbered]
\* struct Align
Align(items, label, numbered) ==
    [kind |-> "Align", items |-> items, label |-> label, numbered |-> numbered]

\* format!("equation{}", ..) / format!("align{}", ..)
StarredName(name, numbered) == IF numbered THEN <<name>> ELSE <<name, "*">>

\* an equation that writes its label after its text
EquationWritesLabelLast(eq) ==
    <<W(<<BS, "begin", "{">> \o StarredName("equation", eq.numbered) \o <<"}", NL>>)>>
    \o <<W(eq.text \o <<NL>>)>>
    \o (IF eq.label.some THEN <<W(<<BS, "label", "{">> \o eq.label.v \o <<"}", NL>>)>> ELSE << >>)
    \o <<W(<<BS, "end", "{">> \o StarredName("equation", eq.numbered) \o <<"}", NL>>)>>

\* impl Writable for Equation
EquationWrites(eq) ==
    <<W(<<BS, "begin", "{">> \o StarredName("equation", eq.numbered) \o <<"}", NL>>)>>
    \o (IF eq.label.some THEN <<W(<<BS, "label", "{">> \o eq.label.v \o <<"}", NL>>)>> ELSE << >>)
    \o <<W(eq.text \o <<NL>>)>>
    \o <<W(<<BS, "end", "{">> \o StarredName("equation", eq.numbered) \o <<"}", NL>>)>>

\* a row that gets its \nonumber line whenever the equation is unnumbered
write_equation_nonumber(item, numbered) ==
    (IF ~item.numbered THEN <<W(<<BS, "nonumber", NL>>)>> ELSE << >>)
    \o <<W(item.text \o <<" ">>)>>
    \o (IF item.label.some THEN <<W(<<BS, "label", "{">> \o item.label.v \o <<"}", " ">>)>> ELSE << >>)
    \o <<W(<<BS, BS, NL>>)>>

\* fn write_equation
write_equation(item, numbered) ==
    (IF ~item.numbered /\ numbered THEN <<W(<<BS, "nonumber", NL>>)>> ELSE << >>)
    \o <<W(item.text \o <<" ">>)>>
    \o (IF item.label.some THEN <<W(<<BS, "label", "{">> \o item.label.v \o <<"}", " ">>)>> ELSE << >>)
    \o <<W(<<BS, BS, NL>>)>>

\* an align block that writes its own label after \begin
AlignWritesLabel(a) ==
    <<W(<<BS, "begin", "{">> \o StarredName("align", a.numbered) \o <<"}", NL>>)>>
    \o (IF a.label.some THEN <<W(<<BS, "label", "{">> \o a.label.v \o <<"}", NL>>)>> ELSE << >>)
    \o Concat([i \in 1..Len(a.items) |-> write_equation(a.items[i], a.numbered)])
    \o <<W(<<BS, "end", "{">> \o StarredName("align", a.numbered) \o <<"}", NL>>)>>

\* impl Writable for Align
AlignWrites(a) ==
    <<W(<<BS, "begin", "{">> \o StarredName("align", a.numbered) \o <<"}", NL>>)>>
    \o Concat([i \in 1..Len(a.items) |-> write_equation(a.items[i], a.numbered)])
    \o <<W(<<BS, "end", "{">> \o StarredName("align", a.numbered) \o <<"}", NL>>)>>

(***************************************************************************)
(* Elements: document.rs, section.rs, enviroment.rs, lists.rs              *)
(***************************************************************************)
\* create_section_type!(<type>, <keyword>): the seven sectioning types
SectionKinds ==
    {"Part", "Chapter", "Section", "Subsection", "Subsubsection", "Paragraph", "Subparagraph"}

\* create_section_type! invocations: the $section_tex literal of each type
SectionTex(kind) ==
    CASE kind = "Part" -> <<"part">>
      [] kind = "Chapter" -> <<"chapter">>
      [] kind = "Section" -> <<"section">>
      [] kind = "Subsection" -> <<"subsection">>
      [] kind = "Subsubsection" -> <<"subsubsection">>
      [] kind = "Paragraph" -> <<"paragraph">>
      [] kind = "Subparagraph" -> <<"subparagraph">>

\* $section_name::new_formatted(name: Text)
SectionNewFormatted(kind, name) ==
    [kind |-> kind, name |-> name, elements |-> << >>, sectioning_name |-> SectionTex(kind),
     toctitle |-> None, numbered |-> TRUE]
\* $section_name::new(name: &str)
SectionNew(kind, name) == SectionNewFormatted(kind, TextFrom(name))
\* #[derive(Default)] of a sectioning type: every field its type's default
SectionDefault(kind) ==
    [kind |-> kind, name |-> Text(<< >>), elements |-> << >>, sectioning_name |-> << >>,
     toctitle |-> None, numbered |-> FALSE]

\* Container::new
ContainerNew == [kind |-> "Container", elements |-> << >>]
\* Element::UserDefined(String), Element::Input(String), Element::_Other
UserDefined(s) == [kind |-> "UserDefined", s |-> s]
Input(s) == [kind |-> "Input", s |-> s]
Other == [kind |-> "_Other"]

\* struct Environment
Environment(name, elements, params, optional_params) ==
    [kind |-> "Environment", enving_name |-> name, elements |-> elements, params |-> params,
     optional_params |-> optional_params, numbered |-> TRUE]
\* Environment::new_empty(name)
EnvironmentNewEmpty(name) == Environment(name, << >>, << >>, << >>)
\* Environment::with_params(name, params, optional_params): None becomes the empty list
EnvironmentWithParams(name, params, optional_params) ==
    Environment(name, << >>,
                IF params.some THEN params.v ELSE << >>,
                IF optional_params.some THEN optional_params.v ELSE << >>)
\* Environment::new(name, text, params, optional_params): every line an Element::Text
EnvironmentNew(name, text, params, optional_params) ==
    Environment(name, [i \in 1..Len(text) |-> TextFrom(text[i])],
                IF params.some THEN params.v ELSE << >>,
                IF optional_params.some THEN optional_params.v ELSE << >>)

\* an environment name that does not tell the kinds apart
environment_name_itemize(kind) == "itemize"

\* ListKind::environment_name
environment_name(kind) == IF kind = "Enumerate" THEN "enumerate" ELSE "itemize"
\* List::new(kind); items holds the Container of each Item
ListNew(kind) == [kind |-> "List", list |-> kind, items |-> << >>]

\* push of a composite node: the element is appended to its children
PushElement(node, e) == [node EXCEPT !.elements = Append(@, e)]
\* List::push(item: Container)
ListPush(l, c) == [l EXCEPT !.items = Append(@, c)]
\* List::push_element / List::push_text: a fresh Container holding the one element
ListPushElement(l, e) == ListPush(l, PushElement(ContainerNew, e))

\* a heading that writes the toc title whenever one is set, numbered or not
SectionHeadingWritesTocAlways(section) ==
    <<W(<<BS>> \o section.sectioning_name \o (IF section.numbered THEN << >> ELSE <<"*">>))>>
    \o (IF section.toctitle.some
          THEN <<W(<<"[">>)>> \o TextWrites(section.toctitle.v) \o <<W(<<"]", "{">>)>>
          ELSE <<W(<<"{">>)>>)
    \o TextWrites(section.name)
    \o <<W(<<"}", NL>>)>>

\* a heading that never writes the toc title
SectionHeadingWritesNoToc(section) ==
    <<W(<<BS>> \o section.sectioning_name \o (IF section.numbered THEN << >> ELSE <<"*">>)),
      W(<<"{">>)>>
    \o TextWrites(section.name)
    \o <<W(<<"}", NL>>)>>

\* the heading of visit_sectioning_element
SectionHeadingWrites(section) ==
    (IF section.numbered
       THEN <<W(<<BS>> \o section.sectioning_name)>>
            \o (IF section.toctitle.some
                  THEN <<W(<<"[">>)>> \o TextWrites(section.toctitle.v) \o <<W(<<"]", "{">>)>>
                  ELSE <<W(<<"{">>)>>)
       ELSE <<W(<<BS>> \o section.sectioning_name \o <<"*", "{">>)>>)
    \o TextWrites(section.name)
    \o <<W(<<"}", NL>>)>>

\* a separator that leaves an empty line after every child
SectionSeparatorBlankLine == <<W(<<NL>>), W(<<NL>>)>>

\* the writeln!(writer) after every child of a sectioning node
SectionSeparator == <<W(<<NL>>)>>

\* a head that writes the optional group before the mandatory groups
EnvironmentHeaderWritesOptionalFirst(env) ==
    <<W(<<BS, "begin", "{">> \o env.enving_name \o <<"}">>)>>
    \o (IF env.optional_params # << >>
          THEN <<W(<<"[">> \o Join(env.optional_params, <<",">>) \o <<"]">>)>>
          ELSE << >>)
    \o [i \in 1..Len(env.params) |-> W(<<"{">> \o env.params[i] \o <<"}">>)]
    \o <<W(<<NL>>)>>

\* the head of Environment::write_to: \begin{name}, the parameters, the line break
EnvironmentHeaderWrites(env) ==
    <<W(<<BS, "begin", "{">> \o env.enving_name \o <<"}">>)>>
    \o (IF env.params # << >>
          THEN [i \in 1..Len(env.params) |-> W(<<"{">> \o env.params[i] \o <<"}">>)]
          ELSE << >>)
    \o (IF env.optional_params # << >>
          THEN <<W(<<"[">> \o Join(env.optional_params, <<",">>) \o <<"]">>)>>
          ELSE << >>)
    \o <<W(<<NL>>)>>

RECURSIVE ElementWrites(_)
RECURSIVE ElementsWrites(_, _)

\* for element in ..iter() { element.write_to(writer)?; <after> }
ElementsWrites(es, after) ==
    IF es = << >> THEN << >>
    ELSE ElementWrites(Head(es)) \o after \o ElementsWrites(Tail(es), after)

\* fn visit_sectioning_element
visit_sectioning_element(section) ==
    SectionHeadingWrites(section) \o ElementsWrites(section.elements, SectionSeparator)

\* a container that ends every child with a line break
ContainerWritesLines(c) == ElementsWrites(c.elements, <<W(<<NL>>)>>)

\* impl Writable for Container
ContainerWrites(c) == ElementsWrites(c.elements, << >>)

\* impl Writable for Environment
\* an environment that writes no line break after its children
EnvironmentWritesNoBreaks(env) ==
    EnvironmentHeaderWrites(env)
    \o ElementsWrites(env.elements, << >>)
    \o <<W(<<BS, "end", "{">> \o env.enving_name \o <<"}", NL>>)>>

EnvironmentWrites(env) ==
    EnvironmentHeaderWrites(env)
    \o ElementsWrites(env.elements, <<W(<<NL>>)>>)
    \o <<W(<<BS, "end", "{">> \o env.enving_name \o <<"}", NL>>)>>

RECURSIVE ItemsWrites(_)
\* the loop of List::write_to: the marker, the item's Container, a line break
ItemsWrites(items) ==
    IF items = << >> THEN << >>
    ELSE <<W(<<BS, "item", " ">>)>> \o ContainerWrites(Head(items)) \o <<W(<<NL>>)>>
         \o ItemsWrites(Tail(items))

\* impl Writable for List
ListWrites(l) ==
    <<W(<<BS, "begin", "{", environment_name(l.list), "}", NL>>)>>
    \o ItemsWrites(l.items)
    \o <<W(<<BS, "end", "{", environment_name(l.list), "}", NL>>)>>

\* impl Writable for Element
ElementWrites(e) ==
    CASE e.kind = "Text" -> TextWrites(e)
      [] e.kind \in SectionKinds -> visit_sectioning_element(e)
      [] e.kind = "Container" -> ContainerWrites(e)
      [] e.kind = "Command" -> CommandWrites(e)
      [] e.kind = "UserDefined" -> <<W(e.s \o <<NL>>)>>
      [] e.kind = "Align" -> AlignWrites(e)
      [] e.kind = "Environment" -> EnvironmentWrites(e)
      [] e.kind = "List" -> ListWrites(e)
      [] e.kind = "Input" -> <<W(<<BS, "input", "{">> \o e.s \o <<"}", NL>>)>>
      [] e.kind = "_Other" -> <<Panic>>

(***************************************************************************)
(* Preamble and Document: document.rs                                      *)
(***************************************************************************)
\* PreambleElement::UsePackage { package, argument }
UsePackage(package, argument) == [p |-> "UsePackage", package |-> package, argument |-> argument]
\* PreambleElement::NewCommand { name, args_num, default_arg, definition }
NewCommand(name, args_num, default_arg, definition) ==
    [p |-> "NewCommand", name |-> name, args_num |-> args_num, default_arg |-> default_arg,
     definition |-> definition]
\* PreambleElement::UserDefined(String)
PreambleUserDefined(s) == [p |-> "UserDefined", s |-> s]

\* Preamble::default()
PreambleDefault == [kind |-> "Preamble", author |-> None, title |-> None, contents |-> << >>]

RECURSIVE FmtUsize(_)
\* Display of a usize: its decimal digits
FmtUsize(n) ==
    IF n < 10 THEN <<<<"0", "1", "2", "3", "4", "5", "6", "7", "8", "9">>[n + 1]>>
    ELSE FmtUsize(n \div 10) \o FmtUsize(n % 10)

\* a match that writes the default argument of a definition before its arity
PreambleElementWritesDefaultFirst(item) ==
    CASE item.p = "UsePackage" ->
           IF item.argument.some
             THEN <<W(<<BS, "usepackage", "[">> \o item.argument.v \o <<"]", "{">>
                      \o item.package \o <<"}", NL>>)>>
             ELSE <<W(<<BS, "usepackage", "{">> \o item.package \o <<"}", NL>>)>>
      [] item.p = "NewCommand" ->
           <<W(<<BS, "newcommand", "{", BS>> \o item.name \o <<"}">>)>>
           \o (IF item.default_arg.some
                 THEN <<W(<<"[">> \o item.default_arg.v \o <<"]">>)>> ELSE << >>)
           \o (IF item.args_num.some
                 THEN <<W(<<"[">> \o FmtUsize(item.args_num.v) \o <<"]">>)>> ELSE << >>)
           \o <<W(<<"{", NL>>), W(item.definition \o <<NL>>), W(<<"}", NL>>)>>
      [] item.p = "UserDefined" -> <<W(item.s \o <<NL>>)>>

\* one arm of the match in Preamble::write_to
PreambleElementWrites(item) ==
    CASE item.p = "UsePackage" ->
           IF item.argument.some
             THEN <<W(<<BS, "usepackage", "[">> \o item.argument.v \o <<"]", "{">>
                      \o item.package \o <<"}", NL>>)>>
             ELSE <<W(<<BS, "usepackage", "{">> \o item.package \o <<"}", NL>>)>>
      [] item.p = "NewCommand" ->
           <<W(<<BS, "newcommand", "{", BS>> \o item.name \o <<"}">>)>>
           \o (IF item.args_num.some
                 THEN <<W(<<"[">> \o FmtUsize(item.args_num.v) \o <<"]">>)>> ELSE << >>)
           \o (IF item.default_arg.some
                 THEN <<W(<<"[">> \o item.default_arg.v \o <<"]">>)>> ELSE << >>)
           \o <<W(<<"{", NL>>), W(item.definition \o <<NL>>), W(<<"}", NL>>)>>
      [] item.p = "UserDefined" -> <<W(item.s \o <<NL>>)>>

\* a preamble that writes the empty line before title and author also when it has
\* no content
PreambleWritesBlankAlways(pre) ==
    Concat([i \in 1..Len(pre.contents) |-> PreambleElementWrites(pre.contents[i])])
    \o (IF pre.title.some \/ pre.author.some THEN <<W(<<NL>>)>> ELSE << >>)
    \o (IF pre.title.some THEN <<W(<<BS, "title", "{">> \o pre.title.v \o <<"}", NL>>)>> ELSE << >>)
    \o (IF pre.author.some THEN <<W(<<BS, "author", "{">> \o pre.author.v \o <<"}", NL>>)>> ELSE << >>)

\* impl Writable for Preamble
PreambleWrites(pre) ==
    Concat([i \in 1..Len(pre.contents) |-> PreambleElementWrites(pre.contents[i])])
    \o (IF pre.contents # << >> /\ (pre.title.some \/ pre.author.some)
          THEN <<W(<<NL>>)>> ELSE << >>)
    \o (IF pre.title.some THEN <<W(<<BS, "title", "{">> \o pre.title.v \o <<"}", NL>>)>> ELSE << >>)
    \o (IF pre.author.some THEN <<W(<<BS, "author", "{">> \o pre.author.v \o <<"}", NL>>)>> ELSE << >>)

\* enum DocumentClass
DocumentClass(c) == [c |-> c, s |-> << >>]
ClassOther(s) == [c |-> "Other", s |-> s]

\* impl Display for DocumentClass
FmtDocumentClass(class) ==
    CASE class.c = "Article" -> <<"article">>
      [] class.c = "Book" -> <<"book">>
      [] class.c = "Report" -> <<"report">>
      [] class.c = "Part" -> << >>
      [] class.c = "Other" -> class.s

\* Document::new(document_class)
DocumentNew(class) ==
    [kind |-> "Document", class |-> class, preamble |-> PreambleDefault, arguments |-> << >>,
     elements |-> << >>]

\* the class declaration line of Document::write_to
ClassLineWrites(doc) ==
    <<W(<<BS, "documentclass", "[">> \o Join(doc.arguments, <<",">>) \o <<"]", "{">>
        \o FmtDocumentClass(doc.class) \o <<"}", NL>>)>>

\* a match on the wrong variant of DocumentClass
IsPartialOther(doc) == doc.class.c = "Other"

\* the match of Document::write_to: is this a partial document?
IsPartial(doc) == doc.class.c = "Part"

\* a Document::write_to that separates the preamble from the body by an empty line
DocumentWritesSpaced(doc) ==
    IF doc.class.c = "Part" THEN ElementsWrites(doc.elements, << >>)
    ELSE ClassLineWrites(doc)
         \o PreambleWrites(doc.preamble)
         \o <<W(<<NL>>)>>
         \o <<W(<<BS, "begin", "{", "document", "}", NL>>)>>
         \o ElementsWrites(doc.elements, << >>)
         \o <<W(<<BS, "end", "{", "document", "}", NL>>)>>

\* impl Writable for Document
DocumentWrites(doc) ==
    IF IsPartial(doc) THEN ElementsWrites(doc.elements, << >>)
    ELSE ClassLineWrites(doc)
         \o PreambleWrites(doc.preamble)
         \o <<W(<<BS, "begin", "{", "document", "}", NL>>)>>
         \o ElementsWrites(doc.elements, << >>)
         \o <<W(<<BS, "end", "{", "document", "}", NL>>)>>

\* T::write_to for the T: Writable handed to Latex::write
WriteTo(x) ==
    CASE x.kind = "Document" -> DocumentWrites(x)
      [] x.kind = "Preamble" -> PreambleWrites(x)
      [] x.kind = "Equation" -> EquationWrites(x)
      [] OTHER -> ElementWrites(x)

(***************************************************************************)
(* The writer: struct Latex (lib.rs)                                       *)
(***************************************************************************)
\* The errors a sink reports.
IoErrors == {"closed", "full"}

RECURSIVE PanicAt(_, _)
\* index of the first operation at which the traversal panics, from i on; 0 if none
PanicAt(ops, i) ==
    IF i > Len(ops) THEN 0
    ELSE IF ops[i].k = "panic" THEN i
    ELSE PanicAt(ops, i + 1)

\* the operations a traversal executes: those before the first panic
Executed(ops) == IF PanicAt(ops, 1) = 0 THEN ops ELSE SubSeq(ops, 1, PanicAt(ops, 1) - 1)

\* the text a sequence of write operations puts into a sink that accepts them all
Written(ops) == Concat([i \in 1..Len(ops) |-> ops[i].d])

\* Latex::new(writer) with an empty sink
Fresh(w) == pc[w] = "idle" /\ sink[w] = << >> /\ count[w] = 0

\* a traversal that drains the children it has written
SelfDrained(t) == [t EXCEPT !.elements = << >>]

\* &self of Writable::write_to: the traversal leaves the value as it is
SelfAfterWrite(t) == t

\* the ? of Latex::write: the sink's error goes to the caller (From<Error> for Error)
Propagate(e) == e

\* a write that starts the sink over instead of appending to it
LatexWriteTruncating(w) ==
    /\ pc[w] \in {"idle", "ok"}
    /\ count[w] < MaxWrites
    /\ LET ops == WriteTo(tree)
           done == Executed(ops)
       IN /\ sink' = [sink EXCEPT ![w] = Written(done)]
          /\ pos' = [pos EXCEPT ![w] = Len(done)]
          /\ pc' = [pc EXCEPT ![w] = IF PanicAt(ops, 1) = 0 THEN "ok" ELSE "panic"]
          /\ ret' = [ret EXCEPT ![w] = IF PanicAt(ops, 1) = 0 THEN "Ok" ELSE "none"]
    /\ fault' = [fault EXCEPT ![w] = "none"]
    /\ rendered' = [rendered EXCEPT ![w] = tree]
    /\ base' = [base EXCEPT ![w] = sink[w]]
    /\ count' = [count EXCEPT ![w] = @ + 1]
    /\ tree' = SelfAfterWrite(tree)

\* Latex::write on a sink that accepts every write (Vec<u8>): the whole call
LatexWrite(w) ==
    /\ pc[w] \in {"idle", "ok"}
    /\ count[w] < MaxWrites
    /\ LET ops == WriteTo(tree)
           done == Executed(ops)
       IN /\ sink' = [sink EXCEPT ![w] = @ \o Written(done)]
          /\ pos' = [pos EXCEPT ![w] = Len(done)]
          /\ pc' = [pc EXCEPT ![w] = IF PanicAt(ops, 1) = 0 THEN "ok" ELSE "panic"]
          /\ ret' = [ret EXCEPT ![w] = IF PanicAt(ops, 1) = 0 THEN "Ok" ELSE "none"]
    /\ fault' = [fault EXCEPT ![w] = "none"]
    /\ rendered' = [rendered EXCEPT ![w] = tree]
    /\ base' = [base EXCEPT ![w] = sink[w]]
    /\ count' = [count EXCEPT ![w] = @ + 1]
    /\ tree' = SelfAfterWrite(tree)

\* Latex::into_inner, then Latex::new(Vec::new()): the writer starts over
LatexNew(w) ==
    /\ pc[w] \in {"ok", "err", "panic"}
    /\ pc' = [pc EXCEPT ![w] = "idle"]
    /\ pos' = [pos EXCEPT ![w] = 0]
    /\ sink' = [sink EXCEPT ![w] = << >>]
    /\ fault' = [fault EXCEPT ![w] = "none"]
    /\ ret' = [ret EXCEPT ![w] = "none"]
    /\ rendered' = [rendered EXCEPT ![w] = << >>]
    /\ base' = [base EXCEPT ![w] = << >>]
    /\ count' = [count EXCEPT ![w] = 0]
    /\ UNCHANGED tree

InitWriters ==
    /\ pc = [w \in Writers |-> "idle"]
    /\ pos = [w \in Writers |-> 0]
    /\ sink = [w \in Writers |-> << >>]
    /\ fault = [w \in Writers |-> "none"]
    /\ ret = [w \in Writers |-> "none"]
    /\ rendered = [w \in Writers |-> << >>]
    /\ base = [w \in Writers |-> << >>]
    /\ count = [w \in Writers |-> 0]

writerVars == <<pc, pos, sink, fault, ret, rendered, base, count>>

\* A value is changed (&mut self) only while no writer holds output of it.
AllFresh == \A w \in Writers : Fresh(w)

(***************************************************************************)
(* Latex::write one write operation at a time, on sinks that may fail and  *)
(* with the calls of several writers interleaved.                          *)
(***************************************************************************)
\* a traversal that goes on after an error of the sink
InCallIgnoringErrors(w) == pc[w] \in {"run", "err"}

\* the traversal of writer w is under way: no ? has returned from it
InCall(w) == pc[w] = "run"

\* one position shared by the traversals of all writers
AdvanceShared(w) == [v \in Writers |-> pos[w] + 1]

\* the position of writer w's traversal after one more write operation
Advance(w) == [pos EXCEPT ![w] = @ + 1]

\* the write operation writer w's traversal issues next
NextOp(w) == WriteTo(tree)[pos[w] + 1]

\* Latex::write is called on a new writer
WriteCall(w) ==
    /\ Fresh(w)
    /\ pc' = [pc EXCEPT ![w] = "run"]
    /\ pos' = [pos EXCEPT ![w] = 0]
    /\ rendered' = [rendered EXCEPT ![w] = tree]
    /\ base' = [base EXCEPT ![w] = sink[w]]
    /\ count' = [count EXCEPT ![w] = @ + 1]
    /\ UNCHANGED <<tree, sink, fault, ret>>

\* one write!/writeln! that the sink accepts
WriteOp(w) ==
    /\ InCall(w)
    /\ pos[w] < Len(WriteTo(tree))
    /\ NextOp(w).k = "w"
    /\ sink' = [sink EXCEPT ![w] = @ \o NextOp(w).d]
    /\ pos' = Advance(w)
    /\ tree' = SelfAfterWrite(tree)
    /\ UNCHANGED <<pc, fault, ret, rendered, base, count>>

\* one write!/writeln! during which the sink reports error e after taking the
\* first n symbols; the ? returns e from every level of the traversal
WriteOpFails(w, n, e) ==
    /\ InCall(w)
    /\ pos[w] < Len(WriteTo(tree))
    /\ NextOp(w).k = "w"
    /\ n < Len(NextOp(w).d)
    /\ sink' = [sink EXCEPT ![w] = @ \o SubSeq(NextOp(w).d, 1, n)]
    /\ pos' = Advance(w)
    /\ fault' = [fault EXCEPT ![w] = e]
    /\ ret' = [ret EXCEPT ![w] = Propagate(e)]
    /\ pc' = [pc EXCEPT ![w] = "err"]
    /\ tree' = SelfAfterWrite(tree)
    /\ UNCHANGED <<rendered, base, count>>

\* Element::_Other => unreachable!()
WritePanics(w) ==
    /\ InCall(w)
    /\ pos[w] < Len(WriteTo(tree))
    /\ NextOp(w).k = "panic"
    /\ pc' = [pc EXCEPT ![w] = "panic"]
    /\ UNCHANGED <<tree, pos, sink, fault, ret, rendered, base, count>>

\* the traversal is complete: Ok(())
WriteReturns(w) ==
    /\ InCall(w)
    /\ pos[w] = Len(WriteTo(tree))
    /\ pc' = [pc EXCEPT ![w] = "ok"]
    /\ ret' = [ret EXCEPT ![w] = "Ok"]
    /\ UNCHANGED <<tree, pos, sink, fault, rendered, base, count>>

(***************************************************************************)
(* Building a Document                                                     *)
(***************************************************************************)
\* a title that can be set only once
PreambleTitleKeepFirst(pre, name) ==
    IF pre.title.some THEN pre ELSE [pre EXCEPT !.title = Some(name)]
\* Preamble::title
PreambleTitle(pre, name) == [pre EXCEPT !.title = Some(name)]
\* Preamble::author
PreambleAuthor(pre, name) == [pre EXCEPT !.author = Some(name)]
\* Preamble::push
PreamblePush(pre, element) == [pre EXCEPT !.contents = Append(@, element)]
\* Preamble::use_package
PreambleUsePackage(pre, name) == PreamblePush(pre, UsePackage(name, None))
\* Preamble::new_command
PreambleNewCommand(pre, name, args_num, definition) ==
    PreamblePush(pre, NewCommand(name, Some(args_num), None, definition))

\* A document without elements: Document::new, then the public fields arguments
\* and preamble set.
DocumentWith(class, arguments, preamble) ==
    [DocumentNew(class) EXCEPT !.arguments = arguments, !.preamble = preamble]

\* The documents the builder starts from.
EmptyDocuments ==
    {DocumentNew(DocumentClass("Article")),
     DocumentWith(DocumentClass("Article"), <<<<"a">>>>, PreambleTitle(PreambleDefault, <<"a">>)),
     DocumentWith(DocumentClass("Book"), <<<<"a">>, <<"b">>>>,
                  PreambleUsePackage(PreambleAuthor(PreambleDefault, <<"b">>), <<"a">>)),
     DocumentWith(DocumentClass("Report"), <<<<"b">>, <<"a">>, <<"b">>>>,
                  PreambleUsePackage(
                      PreambleAuthor(PreambleTitle(PreambleDefault, <<"a">>), <<"b">>), <<"a">>)),
     DocumentNew(DocumentClass("Part")),
     DocumentWith(DocumentClass("Part"), <<<<"a">>>>,
                  PreambleUsePackage(
                      PreambleAuthor(PreambleTitle(PreambleDefault, <<"a">>), <<"b">>), <<"a">>)),
     DocumentWith(ClassOther(<<"a">>), << >>, PreambleUsePackage(PreambleDefault, <<"b">>)),
     DocumentWith(ClassOther(<< >>), <<<< >>>>, PreambleTitle(PreambleDefault, << >>))}

\* The elements the builder pushes into a document.
DocElements ==
    {TextFrom(<<"a">>),
     Text(<< >>),
     Text(<<Plain(<<"a">>), Bold(Italic(Plain(<<"b">>))), InlineMath(<< >>)>>),
     LineCommand("TitlePage"),
     Framebox(TextFrom(<<"a">>), None, Some(<<"b">>)),
     UserDefined(<<"b">>),
     Input(<< >>),
     PushElement(SectionNew("Section", <<"a">>), TextFrom(<<"b">>)),
     PushElement([SectionNew("Chapter", << >>) EXCEPT !.numbered = FALSE],
                 PushElement(SectionNew("Subsection", <<"b">>), LineCommand("NewPage"))),
     PushElement(ContainerNew, LineCommand("ClearPage")),
     Align(<<AlignEquation(<<"a">>, Some(<<"b">>), FALSE)>>, None, TRUE),
     ListPushElement(ListNew("Itemize"), TextFrom(<<"a">>)),
     EnvironmentNew(<<"a">>, <<<<"b">>>>, Some(<<<<"a">>>>), None),
     Other}

\* The documents push_doc includes.
IncludedDocs ==
    {PushElement(DocumentNew(DocumentClass("Part")), TextFrom(<<"b">>)),
     [PushElement(PushElement(DocumentNew(DocumentClass("Book")), Input(<<"b">>)),
                  LineCommand("NewPage"))
        EXCEPT !.arguments = <<<<"b">>>>, !.preamble.title = Some(<<"b">>)]}

\* The elements an iterator given to extend yields.
ExtendElements == {LineCommand("BigSkip"), TextFrom(<<"a">>)}

\* Document::push
DocPush(e) ==
    /\ AllFresh
    /\ Len(tree.elements) < MaxElements
    /\ tree' = PushElement(tree, e)
    /\ UNCHANGED writerVars

\* a loop that puts the new elements in front of the old ones
PushAllFront(doc, es) == [doc EXCEPT !.elements = es \o @]

RECURSIVE PushAll(_, _)
\* for elem in iter { self.push(elem); }
PushAll(doc, es) == IF es = << >> THEN doc ELSE PushAll(PushElement(doc, Head(es)), Tail(es))

\* Document::push_doc
DocPushDoc(other) ==
    /\ AllFresh
    /\ Len(tree.elements) + Len(other.elements) <= MaxElements
    /\ tree' = PushAll(tree, other.elements)
    /\ UNCHANGED writerVars

\* impl Extend<Element> for Document
DocExtend(es) ==
    /\ AllFresh
    /\ Len(tree.elements) + Len(es) <= MaxElements
    /\ tree' = PushAll(tree, es)
    /\ UNCHANGED writerVars

Init ==
    /\ tree \in EmptyDocuments
    /\ InitWriters

Next ==
    \/ \E e \in DocElements : DocPush(e)
    \/ \E d \in IncludedDocs : DocPushDoc(d)
    \/ \E e1, e2 \in ExtendElements : DocExtend(<<e1, e2>>)
    \/ \E w \in Writers : LatexWrite(w)
    \/ \E w \in Writers : LatexNew(w)

Spec == Init /\ [][Next]_vars

(***************************************************************************)
(* Building a sectioning node                                              *)
(***************************************************************************)
\* The elements the builder pushes into a sectioning node or an environment.
ChildElements ==
    {TextFrom(<<"a">>),
     TextFrom(<<"b">>),
     Text(<< >>),
     Text(<<Plain(<<"a">>), Bold(Plain(<<"b">>))>>),
     LineCommand("TableOfContents"),
     UserDefined(<<"b">>),
     ContainerNew,
     PushElement(SectionNew("Subsection", <<"a">>), TextFrom(<<"b">>))}

\* The sectioning nodes the builder starts from: new, new_formatted and the derived
\* Default of each of the seven types.
EmptySections ==
    UNION {{SectionNew(k, <<"a">>),
            SectionNewFormatted(k, Text(<<Link(<<"a">>, <<"b">>), Italic(Plain(<< >>))>>)),
            SectionDefault(k)} : k \in SectionKinds}

\* The toc titles set_toctitle is given.
TocTitles == {Text(<<Plain(<<"b">>), InlineMath(<<"a">>)>>)}

\* $section_name::push
SectionPush(e) ==
    /\ AllFresh
    /\ Len(tree.elements) < MaxElements
    /\ tree' = PushElement(tree, e)
    /\ UNCHANGED writerVars

\* $section_name::set_toctitle
SectionSetToctitle(title) ==
    /\ AllFresh
    /\ tree' = [tree EXCEPT !.toctitle = Some(title)]
    /\ UNCHANGED writerVars

\* section.numbered = ..: the public field
SectionSetNumbered(b) ==
    /\ AllFresh
    /\ tree' = [tree EXCEPT !.numbered = b]
    /\ UNCHANGED writerVars

InitSection ==
    /\ tree \in EmptySections
    /\ InitWriters

NextSection ==
    \/ \E e \in ChildElements : SectionPush(e)
    \/ \E title \in TocTitles : SectionSetToctitle(title)
    \/ \E b \in BOOLEAN : SectionSetNumbered(b)
    \/ LatexWrite(1)
    \/ LatexNew(1)

SpecSection == InitSection /\ [][NextSection]_vars

(***************************************************************************)
(* Building an Environment                                                 *)
(***************************************************************************)
\* The parameter lists a constructor of Environment is given.
ParamLists ==
    UNION {[1..n -> {<<"a">>, <<"b">>}] : n \in 0..MaxParams}

OptionalParamLists == {None} \cup {Some(ps) : ps \in ParamLists}

\* The environments the builder starts from: new_empty, with_params and new.
EmptyEnvironments ==
    {EnvironmentNewEmpty(<<"a">>), EnvironmentNewEmpty(<< >>)}
    \cup {EnvironmentWithParams(<<"a">>, ps, os) : ps \in OptionalParamLists, os \in OptionalParamLists}
    \cup {EnvironmentNew(<<"b">>, <<<<"a">>>>, ps, os) :
              ps \in OptionalParamLists, os \in OptionalParamLists}

\* The elements pushed into an environment, and the texts push_text is given.
EnvironmentElements == {LineCommand("BigSkip"), UserDefined(<<"a">>)}
EnvironmentTexts == {TextFrom(<<"b">>)}

\* Environment::push
EnvironmentPush(e) ==
    /\ AllFresh
    /\ Len(tree.elements) < MaxElements
    /\ tree' = PushElement(tree, e)
    /\ UNCHANGED writerVars

\* Environment::push_text
EnvironmentPushText(t) ==
    /\ AllFresh
    /\ Len(tree.elements) < MaxElements
    /\ tree' = PushElement(tree, t)
    /\ UNCHANGED writerVars

InitEnvironment ==
    /\ tree \in EmptyEnvironments
    /\ InitWriters

NextEnvironment ==
    \/ \E e \in EnvironmentElements : EnvironmentPush(e)
    \/ \E t \in EnvironmentTexts : EnvironmentPushText(t)
    \/ LatexWrite(1)
    \/ LatexNew(1)

SpecEnvironment == InitEnvironment /\ [][NextEnvironment]_vars

(***************************************************************************)
(* Rendering on sinks that may fail, by several writers at once            *)
(***************************************************************************)
\* The values rendered.
IoTrees ==
    {PushElement(
         PushElement(DocumentWith(DocumentClass("Article"), <<<<"a">>>>,
                                  PreambleTitle(PreambleDefault, <<"b">>)),
                     PushElement(SectionNew("Section", <<"a">>), TextFrom(<<"b">>))),
         LineCommand("NewPage")),
     PushElement(PushElement(DocumentNew(DocumentClass("Part")), Text(<< >>)),
                 Label(<<"a">>)),
     PushElement(PushElement(SectionNew("Chapter", <<"a">>), TextFrom(<< >>)), Other),
     ListPushElement(ListPushElement(ListNew("Enumerate"), TextFrom(<<"a">>)), Input(<<"b">>)),
     ContainerNew}

InitIO ==
    /\ tree \in IoTrees
    /\ InitWriters

NextIO ==
    \/ \E w \in Writers : WriteCall(w)
    \/ \E w \in Writers : WriteOp(w)
    \/ \E w \in Writers, n \in 0..MaxPartial, e \in IoErrors : WriteOpFails(w, n, e)
    \/ \E w \in Writers : WritePanics(w)
    \/ \E w \in Writers : WriteReturns(w)

SpecIO == InitIO /\ [][NextIO]_vars

\* A traversal under way goes on: the thread in Latex::write is not suspended for
\* ever. Whether a write fails is the sink's choice and gets no fairness.
FairIO == \A w \in Writers : WF_vars(WriteOp(w) \/ WritePanics(w) \/ WriteReturns(w))

SpecIOFair == InitIO /\ [][NextIO]_vars /\ FairIO

(***************************************************************************)
(* Building inline text, commands, math blocks and lists                   *)
(***************************************************************************)
\* The elements pushed into a Text.
TextElements ==
    {Plain(<<"a">>), Plain(<< >>), Plain(<<BS, "{", "$">>), Bold(Plain(<<"b">>)),
     Italic(Bold(Plain(<<"a">>))), Bold(Italic(Bold(InlineMath(<<"b">>)))),
     Link(<<"a">>, <<"b">>), InlineMath(<<"a">>)}

\* The commands made by the constructors of the command types.
Commands ==
    {LineCommand(n) : n \in LineCommands}
    \cup {Label(<<"a">>), Ref(<< >>), Bibliographystyle(<<"b">>), Bibliography(<<"a">>)}
    \cup {Bibitem(t, c) : t \in {TextFrom(<<"a">>), Text(<< >>), Text(<<Bold(Plain(<<"b">>))>>)},
                          c \in {<<"a">>, << >>}}
    \cup {Cite(r, o) : r \in {<<"a">>, <<"b">>},
                       o \in {None, Some(TextFrom(<<"b">>)), Some(Text(<< >>))}}
    \cup {Framebox(t, sz, p) : t \in {TextFrom(<<"a">>), Text(<<Italic(Plain(<<"b">>))>>)},
                               sz \in {None, Some(<<"a">>), Some(<< >>)},
                               p \in {None, Some(<<"b">>)}}

\* The equations pushed into an Align: AlignEquation::new, with_label and the
\* public fields.
AlignEquations ==
    {AlignEquation(t, l, n) : t \in {<<"a">>, << >>}, l \in {None, Some(<<"b">>)}, n \in BOOLEAN}

\* The items pushed into a List.
ListItems ==
    {ContainerNew,
     PushElement(ContainerNew, TextFrom(<<"a">>)),
     PushElement(PushElement(ContainerNew, TextFrom(<<"b">>)), LineCommand("NewPage")),
     PushElement(ContainerNew, ListPushElement(ListNew("Enumerate"), TextFrom(<<"a">>)))}

\* Equation::new(src)
EquationNew(src) == Equation(src, None, TRUE)
\* Equation::with_label(label, text)
EquationWithLabel(label, text) == [EquationNew(text) EXCEPT !.label = Some(label)]

\* The elements pushed into a Container.
ContainerElements ==
    {TextFrom(<<"a">>), LineCommand("BigSkip"), ContainerNew,
     PushElement(ContainerNew, PushElement(ContainerNew, TextFrom(<<"b">>))),
     PushElement(SectionNew("Section", <<"a">>), PushElement(ContainerNew, Input(<<"b">>)))}

\* The values the builder starts from: Text::new, List::new, Align::new,
\* Align::with_label, Equation::new, Equation::with_label, Container::new and the
\* commands.
NewElements ==
    {Text(<< >>), ListNew("Itemize"), ListNew("Enumerate"),
     Align(<< >>, None, TRUE), Align(<< >>, Some(<<"a">>), TRUE),
     EquationNew(<<"a">>), EquationNew(<< >>), EquationWithLabel(<<"b">>, <<"a">>),
     ContainerNew}
    \cup Commands

\* Text::push
TextPush(e) ==
    /\ AllFresh
    /\ tree.kind = "Text"
    /\ Len(tree.elements) < MaxElements
    /\ tree' = PushElement(tree, e)
    /\ UNCHANGED writerVars

\* Text::push_text
TextPushText(s) ==
    /\ AllFresh
    /\ tree.kind = "Text"
    /\ Len(tree.elements) < MaxElements
    /\ tree' = PushElement(tree, Plain(s))
    /\ UNCHANGED writerVars

\* Align::push
AlignPush(eq) ==
    /\ AllFresh
    /\ tree.kind = "Align"
    /\ Len(tree.items) < MaxElements
    /\ tree' = [tree EXCEPT !.items = Append(@, eq)]
    /\ UNCHANGED writerVars

\* align.numbered = ..: the public field
AlignSetNumbered(b) ==
    /\ AllFresh
    /\ tree.kind = "Align"
    /\ tree' = [tree EXCEPT !.numbered = b]
    /\ UNCHANGED writerVars

\* The elements List::push_element and List::push_text are given.
ListElements == {TextFrom(<<"b">>), LineCommand("BigSkip")}

\* List::push
ListPushItem(c) ==
    /\ AllFresh
    /\ tree.kind = "List"
    /\ Len(tree.items) < MaxElements
    /\ tree' = ListPush(tree, c)
    /\ UNCHANGED writerVars

\* List::push_element, List::push_text
ListPushOne(e) ==
    /\ AllFresh
    /\ tree.kind = "List"
    /\ Len(tree.items) < MaxElements
    /\ tree' = ListPushElement(tree, e)
    /\ UNCHANGED writerVars

\* Equation::set_label
EquationSetLabel(label) ==
    /\ AllFresh
    /\ tree.kind = "Equation"
    /\ tree' = [tree EXCEPT !.label = Some(label)]
    /\ UNCHANGED writerVars

\* equation.numbered = ..: the public field
EquationSetNumbered(b) ==
    /\ AllFresh
    /\ tree.kind = "Equation"
    /\ tree' = [tree EXCEPT !.numbered = b]
    /\ UNCHANGED writerVars

\* Container::push
ContainerPush(e) ==
    /\ AllFresh
    /\ tree.kind = "Container"
    /\ Len(tree.elements) < MaxElements
    /\ tree' = PushElement(tree, e)
    /\ UNCHANGED writerVars

\* Label::get_ref
LabelGetRef ==
    /\ AllFresh
    /\ tree.kind = "Command" /\ tree.c = "Label"
    /\ tree' = Ref(tree.label)
    /\ UNCHANGED writerVars

\* Bibitem::get_ref
BibitemGetRef ==
    /\ AllFresh
    /\ tree.kind = "Command" /\ tree.c = "Bibitem"
    /\ tree' = Cite(tree.cite, None)
    /\ UNCHANGED writerVars

InitElement ==
    /\ tree \in NewElements
    /\ InitWriters

NextElement ==
    \/ \E e \in TextElements : TextPush(e)
    \/ \E s \in {<<"b">>} : TextPushText(s)
    \/ \E eq \in AlignEquations : AlignPush(eq)
    \/ \E b \in BOOLEAN : AlignSetNumbered(b)
    \/ \E c \in ListItems : ListPushItem(c)
    \/ \E e \in ListElements : ListPushOne(e)
    \/ \E l \in {<<"a">>, << >>} : EquationSetLabel(l)
    \/ \E b \in BOOLEAN : EquationSetNumbered(b)
    \/ \E e \in ContainerElements : ContainerPush(e)
    \/ LabelGetRef
    \/ BibitemGetRef
    \/ LatexWrite(1)
    \/ LatexNew(1)

SpecElement == InitElement /\ [][NextElement]_vars

(***************************************************************************)
(* Building a Preamble                                                     *)
(***************************************************************************)
\* The elements Preamble::push is given.
PreambleElements ==
    {UsePackage(<<"a">>, Some(<<"b">>)),
     NewCommand(<<"a">>, None, Some(<<"b">>), <<"a">>),
     NewCommand(<<"b">>, Some(3), Some(<<"a">>), <<"b">>),
     PreambleUserDefined(<<"b">>),
     PreambleUserDefined(<< >>)}

\* Preamble::title
PreTitle(name) ==
    /\ AllFresh
    /\ tree' = PreambleTitle(tree, name)
    /\ UNCHANGED writerVars

\* Preamble::author
PreAuthor(name) ==
    /\ AllFresh
    /\ tree' = PreambleAuthor(tree, name)
    /\ UNCHANGED writerVars

\* Preamble::use_package
PreUsePackage(name) ==
    /\ AllFresh
    /\ Len(tree.contents) < MaxElements
    /\ tree' = PreambleUsePackage(tree, name)
    /\ UNCHANGED writerVars

\* Preamble::new_command
PreNewCommand(name, args_num, definition) ==
    /\ AllFresh
    /\ Len(tree.contents) < MaxElements
    /\ tree' = PreambleNewCommand(tree, name, args_num, definition)
    /\ UNCHANGED writerVars

\* Preamble::push
PrePush(element) ==
    /\ AllFresh
    /\ Len(tree.contents) < MaxElements
    /\ tree' = PreamblePush(tree, element)
    /\ UNCHANGED writerVars

InitPreamble ==
    /\ tree = PreambleDefault
    /\ InitWriters

NextPreamble ==
    \/ \E name \in {<<"a">>, <<"b">>, << >>} : PreTitle(name)
    \/ \E name \in {<<"a">>, <<"b">>} : PreAuthor(name)
    \/ \E name \in {<<"a">>} : PreUsePackage(name)
    \/ PreNewCommand(<<"b">>, 12, << >>)
    \/ \E e \in PreambleElements : PrePush(e)
    \/ LatexWrite(1)
    \/ LatexNew(1)

SpecPreamble == InitPreamble /\ [][NextPreamble]_vars

(***************************************************************************)
(* One writer used for several values: Latex::new, write, write, ..         *)
(***************************************************************************)
\* fn print(doc): a new buffer, Latex::new, write, String::from_utf8; Some(text) is
\* the Ok the caller gets, None stands for no return (the traversal panics)
print(doc) ==
    LET buffer == << >>
        ops == WriteTo(doc)
    IN IF PanicAt(ops, 1) = 0 THEN Some(buffer \o Written(ops)) ELSE None

\* The values handed to Latex::write: any T: Writable.
WritableValues ==
    {PushElement(DocumentWith(DocumentClass("Article"), <<<<"a">>>>,
                              PreambleTitle(PreambleDefault, <<"b">>)),
                 TextFrom(<<"a">>)),
     PushElement(DocumentNew(DocumentClass("Part")), LineCommand("NewPage")),
     PushElement(SectionNew("Section", <<"a">>), TextFrom(<<"b">>)),
     TextFrom(<<"b">>),
     Equation(<<"a">>, None, TRUE),
     Text(<< >>)}

\* The content of the sink handed to Latex::new.
SinkContents == {<< >>, <<"a", NL>>}

\* the caller hands another value to the next Latex::write
TakeValue(x) ==
    /\ pc[1] \in {"idle", "ok"}
    /\ x # tree
    /\ tree' = x
    /\ UNCHANGED writerVars

InitReuse ==
    /\ tree \in WritableValues
    /\ pc = [w \in Writers |-> "idle"]
    /\ pos = [w \in Writers |-> 0]
    /\ sink \in [Writers -> SinkContents]
    /\ sink[2] = << >>
    /\ fault = [w \in Writers |-> "none"]
    /\ ret = [w \in Writers |-> "none"]
    /\ rendered = [w \in Writers |-> << >>]
    /\ base = [w \in Writers |-> << >>]
    /\ count = [w \in Writers |-> 0]

NextReuse ==
    \/ \E x \in WritableValues : TakeValue(x)
    \/ LatexWrite(1)
    \/ LatexNew(1)

SpecReuse == InitReuse /\ [][NextReuse]_vars

(***************************************************************************)
(* Properties of document rendering                                        *)
(***************************************************************************)
\* The text a value renders to on a sink that accepts every write.
Render(x) == Written(WriteTo(x))

\* A write call of writer w returned Ok.
Returned(w) == pc[w] = "ok" /\ ret[w] = "Ok"

\* What the last write call of writer w added to its sink.
Output(w) == SubSeq(sink[w], Len(base[w]) + 1, Len(sink[w]))

\* C1: a Document whose class is not Part renders, in order, the line
\* \documentclass[<arguments joined by commas>]{<class name>}, the preamble, the
\* line \begin{document}, the children in push order and the line \end{document},
\* with nothing else between these parts.
C1_FullDocument ==
    \A w \in Writers :
        (Returned(w) /\ rendered[w].class.c # "Part") =>
            LET doc == rendered[w] IN
            Output(w) =
                <<BS, "documentclass", "[">> \o Join(doc.arguments, <<",">>) \o <<"]", "{">>
                \o FmtDocumentClass(doc.class) \o <<"}", NL>>
                \o Render(doc.preamble)
                \o <<BS, "begin", "{", "document", "}", NL>>
                \o Concat([i \in 1..Len(doc.elements) |-> Render(doc.elements[i])])
                \o <<BS, "end", "{", "document", "}", NL>>

\* C1's case: a full document with several arguments, a preamble and children was rendered.
C1_Witness ==
    \E w \in Writers :
        /\ Returned(w)
        /\ rendered[w].class.c = "Report"
        /\ Len(rendered[w].arguments) > 1
        /\ rendered[w].preamble.title.some
        /\ Len(rendered[w].elements) = MaxElements

\* C2: a Document of class Part renders exactly the concatenation of its children's
\* renderings: no class line, no preamble, no \begin{document} / \end{document}.
C2_PartialDocument ==
    \A w \in Writers :
        (Returned(w) /\ rendered[w].class.c = "Part") =>
            /\ Output(w) =
                   Concat([i \in 1..Len(rendered[w].elements) |-> Render(rendered[w].elements[i])])
            /\ (rendered[w].elements = << >> => Output(w) = << >>)

\* C2's case: a Part document with title, author and a package set, and with children.
C2_Witness ==
    \E w \in Writers :
        /\ Returned(w)
        /\ rendered[w].class.c = "Part"
        /\ rendered[w].preamble.title.some
        /\ rendered[w].preamble.author.some
        /\ rendered[w].preamble.contents # << >>
        /\ Len(rendered[w].elements) = MaxElements

\* a is an initial part of b
IsPrefix(a, b) == Len(a) <= Len(b) /\ SubSeq(b, 1, Len(a)) = a

C4_EnvironmentHeader ==
    Returned(1) =>
        LET env == rendered[1] IN
        IsPrefix(<<BS, "begin", "{">> \o env.enving_name \o <<"}">>
                 \o Concat([i \in 1..Len(env.params) |-> <<"{">> \o env.params[i] \o <<"}">>])
                 \o (IF Len(env.optional_params) > 0
                       THEN <<"[">> \o Join(env.optional_params, <<",">>) \o <<"]">>
                       ELSE << >>)
                 \o <<NL>>,
                 Output(1))

\* C4's case: an environment with several mandatory and several optional parameters.
C4_Witness ==
    /\ Returned(1)
    /\ Len(rendered[1].params) = MaxParams
    /\ Len(rendered[1].optional_params) = MaxParams
    /\ rendered[1].params[1] # rendered[1].params[2]
    /\ rendered[1].elements # << >>

\* The place in the output of section sec where the rendering of its i-th child ends.
ChildEnd(sec, i) ==
    Len(Written(SectionHeadingWrites(sec)))
    + Len(Concat([j \in 1..(i - 1) |-> Render(sec.elements[j]) \o <<NL>>]))
    + Len(Render(sec.elements[i]))

\* C9: in the rendering of a sectioning node every child's rendering is followed by
\* a blank-line separator, whatever the kind of the child: the line break written
\* after the child either closes an empty line or is followed by one.
C9_BlankLineAfterEveryChild ==
    Returned(1) =>
        \A i \in 1..Len(rendered[1].elements) :
            LET e == ChildEnd(rendered[1], i) IN
            /\ e + 1 <= Len(Output(1))
            /\ Output(1)[e + 1] = NL
            /\ \/ Output(1)[e] = NL
               \/ e + 2 <= Len(Output(1)) /\ Output(1)[e + 2] = NL

\* The children of the section are all inline Text elements.
OnlyTextChildren(sec) == \A i \in 1..Len(sec.elements) : sec.elements[i].kind = "Text"

C7_OnlySinkFailures == \A w \in Writers : count[w] > 0 => Returned(w)

\* C6: when a write to the sink fails the call returns the sink's error unchanged,
\* nothing more is written to the sink after the failed write, and the sink holds
\* what was written before: an initial part of the output of a successful render.
C6_SinkFailure ==
    [][\A w \in Writers :
          /\ pc[w] = "err" =>
                 /\ pc'[w] = "err"
                 /\ sink'[w] = sink[w]
                 /\ pos'[w] = pos[w]
                 /\ ret'[w] = ret[w]
          /\ pc'[w] = "err" =>
                 /\ fault'[w] \in IoErrors
                 /\ ret'[w] = fault'[w]
                 /\ IsPrefix(sink[w], sink'[w])
                 /\ IsPrefix(sink'[w], Render(rendered'[w]))]_vars

\* C6's case: the sink reported "full" in the middle of a write, after earlier
\* writes of the call had succeeded.
C6_Witness ==
    \E w \in Writers :
        /\ pc[w] = "err"
        /\ ret[w] = "full"
        /\ pos[w] > 2
        /\ sink[w] # Written(SubSeq(WriteTo(tree), 1, pos[w] - 1))
        /\ Len(sink[w]) < Len(Render(tree))

\* C8: render calls on the same tree that run concurrently, each with its own sink,
\* put into each sink the output of a sequential render of the tree under every
\* interleaving of their writes: each sink holds what the call's own writes so far
\* produce, and the tree is unchanged.
C8_ConcurrentRenders ==
    \A w \in Writers :
        /\ pc[w] # "idle" => tree = rendered[w]
        /\ pc[w] \in {"run", "ok"} => sink[w] = Written(SubSeq(WriteTo(rendered[w]), 1, pos[w]))
        /\ Returned(w) => sink[w] = Render(rendered[w])

\* C8's case: two calls are under way at the same time, at different places of the
\* traversal.
C8_Witness ==
    /\ pc[1] = "run" /\ pc[2] = "run"
    /\ 0 < pos[1]
    /\ pos[1] < pos[2]
    /\ pos[2] < Len(WriteTo(tree))
    /\ sink[1] # << >>

(***************************************************************************)
(* Properties of headings                                                  *)
(***************************************************************************)
\* C11: a sectioning node without children renders its heading line and nothing
\* after it; for a numbered node without toc title the whole output is
\* \<keyword>{<name>} and a line break, <keyword> being the keyword of the node's kind.
C11_EmptySection ==
    (Returned(1) /\ rendered[1].elements = << >>) =>
        LET sec == rendered[1] IN
        /\ Output(1) = Written(SectionHeadingWrites(sec))
        /\ (sec.numbered /\ ~sec.toctitle.some) =>
               Output(1) = <<BS>> \o SectionTex(sec.kind) \o <<"{">> \o FmtText(sec.name) \o <<"}", NL>>

IsLineCommand(x) == x.kind = "Command" /\ x.c \in LineCommands
IsParamCommand(x) == x.kind = "Command" /\ x.c \notin LineCommands

\* C13: every bare one-line Command renders \<keyword> and one line break and nothing
\* else: tableofcontents, maketitle, clearpage, bigskip, newpage, appendix.
C13_LineCommand ==
    (Returned(1) /\ IsLineCommand(rendered[1])) =>
        Output(1) =
            <<BS,
              CASE rendered[1].c = "TableOfContents" -> "tableofcontents"
                [] rendered[1].c = "TitlePage" -> "maketitle"
                [] rendered[1].c = "ClearPage" -> "clearpage"
                [] rendered[1].c = "BigSkip" -> "bigskip"
                [] rendered[1].c = "NewPage" -> "newpage"
                [] rendered[1].c = "Appendix" -> "appendix",
              NL>>

\* C13's case: the ClearPage command was rendered.
C13_Witness ==
    /\ Returned(1)
    /\ rendered[1] = LineCommand("ClearPage")
    /\ Output(1) = <<BS, "clearpage", NL>>

\* [<value>] for a field that is present, nothing for one that is absent
Bracket(o) == IF o.some THEN <<"[">> \o o.v \o <<"]">> ELSE << >>

\* C14: a command with fields renders \<keyword>, one unit per field in the order of
\* its type, then one line break: {<value>} for a brace field, the value alone for a
\* bare field, [<value>] for an optional field that is present and nothing for one
\* that is absent. Framebox: [size][pos]{text}; Cite: [subcit]{reference};
\* Bibitem: {cite} and then its text.
C14_ParamCommand ==
    (Returned(1) /\ IsParamCommand(rendered[1])) =>
        LET c == rendered[1] IN
        Output(1) =
            CASE c.c = "Label" -> <<BS, "label", "{">> \o c.label \o <<"}", NL>>
              [] c.c = "Ref" -> <<BS, "ref", "{">> \o c.text \o <<"}", NL>>
              [] c.c = "Bibitem" -> <<BS, "bibitem", "{">> \o c.cite \o <<"}">> \o FmtText(c.text) \o <<NL>>
              [] c.c = "Bibliographystyle" -> <<BS, "bibliographystyle", "{">> \o c.style \o <<"}", NL>>
              [] c.c = "Bibliography" -> <<BS, "bibliography", "{">> \o c.file \o <<"}", NL>>
              [] c.c = "Cite" ->
                   <<BS, "cite">>
                   \o (IF c.subcit.some THEN <<"[">> \o FmtText(c.subcit.v) \o <<"]">> ELSE << >>)
                   \o <<"{">> \o c.reference \o <<"}", NL>>
              [] c.c = "Framebox" ->
                   <<BS, "framebox">> \o Bracket(c.size) \o Bracket(c.pos)
                   \o <<"{">> \o FmtText(c.text) \o <<"}", NL>>

\* C14's case: a Framebox with a position and without a size was rendered.
C14_Witness ==
    /\ Returned(1)
    /\ rendered[1] = Framebox(TextFrom(<<"a">>), None, Some(<<"b">>))
    /\ Output(1) = <<BS, "framebox", "[", "b", "]", "{", "a", "}", NL>>

\* the name of the align environment: starred when the block is unnumbered
AlignName(a) == IF a.numbered THEN <<"align">> ELSE <<"align", "*">>

\* the row of equation eq in block a, as C15 states it
AlignRow(a, eq) ==
    (IF ~eq.numbered /\ a.numbered THEN <<BS, "nonumber", NL>> ELSE << >>)
    \o eq.text \o <<" ">>
    \o (IF eq.label.some THEN <<BS, "label", "{">> \o eq.label.v \o <<"}", " ">> ELSE << >>)
    \o <<BS, BS, NL>>

C16_AlignLabelSuppressesLabels ==
    (Returned(1) /\ rendered[1].kind = "Align" /\ rendered[1].label.some) =>
        \A j \in 1..Len(Output(1)) : Output(1)[j] # "label"

\* C17: a List renders the line \begin{<env>}, for every item in push order the
\* marker \item and a space, the item's contents and one line break, then the line
\* \end{<env>}; <env> is itemize for Itemize and enumerate for Enumerate.
C17_List ==
    (Returned(1) /\ rendered[1].kind = "List") =>
        LET l == rendered[1]
            env == IF l.list = "Itemize" THEN "itemize" ELSE "enumerate"
            Contents(c) == Concat([j \in 1..Len(c.elements) |-> Render(c.elements[j])])
        IN Output(1) =
               <<BS, "begin", "{", env, "}", NL>>
               \o Concat([i \in 1..Len(l.items) |-> <<BS, "item", " ">> \o Contents(l.items[i]) \o <<NL>>])
               \o <<BS, "end", "{", env, "}", NL>>

\* C17's case: an enumerated list of two plain-text items was rendered.
C17_Witness ==
    /\ Returned(1)
    /\ rendered[1].kind = "List"
    /\ rendered[1].list = "Enumerate"
    /\ Output(1) = <<BS, "begin", "{", "enumerate", "}", NL,
                     BS, "item", " ", "a", NL,
                     BS, "item", " ", "b", NL,
                     BS, "end", "{", "enumerate", "}", NL>>

RECURSIVE InlineTex(_)
\* the text of a Plain, InlineMath, Bold or Italic element, as C18 states it
InlineTex(e) ==
    CASE e.t = "Plain" -> e.s
      [] e.t = "InlineMath" -> <<"$">> \o e.s \o <<"$">>
      [] e.t = "Bold" -> <<BS, "textbf", "{">> \o InlineTex(e.e) \o <<"}">>
      [] e.t = "Italic" -> <<BS, "textit", "{">> \o InlineTex(e.e) \o <<"}">>
      [] OTHER -> << >>

\* C18: a Text renders its elements in push order with nothing between them and no
\* line break at the end: a Plain as its string, unescaped, an InlineMath as $<expr>$,
\* a Bold or Italic as \textbf{..} or \textit{..} around the nested element.
C18_Text ==
    (/\ Returned(1)
     /\ rendered[1].kind = "Text"
     /\ \A i \in 1..Len(rendered[1].elements) : rendered[1].elements[i].t # "Link") =>
        Output(1) = Concat([i \in 1..Len(rendered[1].elements) |-> InlineTex(rendered[1].elements[i])])

\* C18's case: a plain string with special characters and a nested bold element.
C18_Witness ==
    /\ Returned(1)
    /\ rendered[1] = Text(<<Plain(<<BS, "{", "$">>), Bold(Italic(Bold(InlineMath(<<"b">>))))>>)
    /\ Output(1) = <<BS, "{", "$", BS, "textbf", "{", BS, "textit", "{", BS, "textbf", "{",
                     "$", "b", "$", "}", "}", "}">>

\* C19: a Link element with the payload (description, link) renders
\* \href{<link>}{<description>}: the target first, the description second.
C19_LinkTargetFirst ==
    (/\ Returned(1)
     /\ rendered[1].kind = "Text"
     /\ \A i \in 1..Len(rendered[1].elements) : rendered[1].elements[i].t = "Link") =>
        Output(1) =
            Concat([i \in 1..Len(rendered[1].elements) |->
                       <<BS, "href", "{">> \o rendered[1].elements[i].s1 \o <<"}", "{">>
                       \o rendered[1].elements[i].s0 \o <<"}">>])

(***************************************************************************)
(* Properties of the preamble                                              *)
(***************************************************************************)
\* the preamble has content and a title or an author
NeedsBlankLine(pre) == pre.contents # << >> /\ (pre.title.some \/ pre.author.some)

\* no content element of the preamble has an empty line of its own
NoEmptyContentLine(pre) ==
    \A i \in 1..Len(pre.contents) :
        /\ pre.contents[i].p = "NewCommand" => pre.contents[i].definition # << >>
        /\ pre.contents[i].p = "UserDefined" => pre.contents[i].s # << >>

\* the number of empty lines in a text
EmptyLines(out) == Cardinality({j \in 1..Len(out) : out[j] = NL /\ (j = 1 \/ out[j - 1] = NL)})

\* C20: the rendering of a Preamble is its content lines, then one empty line iff it
\* has content and a title or an author, then the title and author lines; with no
\* content or with neither title nor author no empty line is written, and a preamble
\* with only a title renders \title{<text>} and a line break.
C20_PreambleBlankLine ==
    (Returned(1) /\ rendered[1].kind = "Preamble") =>
        LET pre == rendered[1] IN
        /\ Output(1) =
               Concat([i \in 1..Len(pre.contents) |-> Written(PreambleElementWrites(pre.contents[i]))])
               \o (IF NeedsBlankLine(pre) THEN <<NL>> ELSE << >>)
               \o (IF pre.title.some THEN <<BS, "title", "{">> \o pre.title.v \o <<"}", NL>> ELSE << >>)
               \o (IF pre.author.some THEN <<BS, "author", "{">> \o pre.author.v \o <<"}", NL>> ELSE << >>)
        /\ NoEmptyContentLine(pre) =>
               EmptyLines(Output(1)) = IF NeedsBlankLine(pre) THEN 1 ELSE 0
        /\ (pre.contents = << >> /\ pre.title.some /\ ~pre.author.some) =>
               Output(1) = <<BS, "title", "{">> \o pre.title.v \o <<"}", NL>>

\* C20's case: a preamble with a package and a title, and no author, was rendered.
C20_Witness ==
    /\ Returned(1)
    /\ rendered[1].kind = "Preamble"
    /\ ~rendered[1].author.some
    /\ Output(1) = <<BS, "usepackage", "{", "a", "}", NL, NL, BS, "title", "{", "b", "}", NL>>

\* the lines of one content element of a preamble, as C21 states them
ContentTex(item) ==
    CASE item.p = "UsePackage" ->
           <<BS, "usepackage">> \o Bracket(item.argument) \o <<"{">> \o item.package \o <<"}", NL>>
      [] item.p = "NewCommand" ->
           <<BS, "newcommand", "{", BS>> \o item.name \o <<"}">>
           \o (IF item.args_num.some THEN <<"[">> \o FmtUsize(item.args_num.v) \o <<"]">> ELSE << >>)
           \o Bracket(item.default_arg)
           \o <<"{", NL>> \o item.definition \o <<NL, "}", NL>>
      [] item.p = "UserDefined" -> item.s \o <<NL>>

\* the lines of the content elements cs, one after the other
ContentsTex(cs) == Concat([i \in 1..Len(cs) |-> ContentTex(cs[i])])

\* the content elements of one kind, in the order they were pushed
OfKind(cs, p) == LET Test(item) == item.p = p IN SelectSeq(cs, Test)

\* C21 as stated: whatever the order of the pushes, the preamble renders the lines of
\* all packages, then the blocks of all definitions, then the lines of all raw
\* fragments.
C21_GroupedByKind ==
    (Returned(1) /\ rendered[1].kind = "Preamble") =>
        IsPrefix(ContentsTex(OfKind(rendered[1].contents, "UsePackage"))
                 \o ContentsTex(OfKind(rendered[1].contents, "NewCommand"))
                 \o ContentsTex(OfKind(rendered[1].contents, "UserDefined")),
                 Output(1))

\* C21, amended: the preamble renders its content elements in the order they were
\* pushed, each by its kind: a package as \usepackage[<argument>]{<package>} with the
\* bracket iff an argument was supplied, a definition as \newcommand{\<name>}, [<arity>]
\* iff set, [<default>] iff set, {, the body on its own line and } on its own line,
\* a raw fragment as its line.
C21_PushOrder ==
    (Returned(1) /\ rendered[1].kind = "Preamble") =>
        IsPrefix(ContentsTex(rendered[1].contents), Output(1))

\* C21's case: a definition with arity and default argument pushed before a package.
C21_Witness ==
    /\ Returned(1)
    /\ rendered[1].kind = "Preamble"
    /\ rendered[1].contents = <<NewCommand(<<"b">>, Some(3), Some(<<"a">>), <<"b">>),
                                UsePackage(<<"a">>, Some(<<"b">>))>>
    /\ rendered[1].title.some

(***************************************************************************)
(* Properties of a writer that is used again                               *)
(***************************************************************************)
\* C22: every successful write on a writer appends the rendering of its value to the
\* sink, whatever the sink held before (its initial content and the renderings of
\* the earlier calls), with nothing between and nothing before it changed; and
\* print(doc) returns what rendering doc to an empty sink produces.
C22_WriterReuse ==
    /\ [][\A w \in Writers :
             /\ (count'[w] = count[w] + 1 /\ pc'[w] = "ok") => sink'[w] = sink[w] \o Render(tree)
             /\ count'[w] >= count[w] => IsPrefix(sink[w], sink'[w])]_vars
    /\ [](\A w \in Writers :
             (Returned(w) /\ rendered[w].kind = "Document" /\ base[w] = << >>) =>
                 print(rendered[w]) = Some(sink[w]))

\* C22's case: a sink with initial content has taken a section and then a document.
C22_Witness ==
    /\ Returned(1)
    /\ count[1] = 2
    /\ rendered[1].kind = "Document"
    /\ rendered[1].class.c = "Part"
    /\ sink[1] = <<"a", NL>>
                 \o <<BS, "section", "{", "a", "}", NL, "b", NL>>
                 \o <<BS, "newpage", NL>>

(***************************************************************************)
(* Equations, environment bodies and containers                            *)
(***************************************************************************)
\* C23: an Equation renders \begin{E} and a line break, the line \label{<label>} iff
\* a label is set, the equation text on its own line, \end{E} and a line break, E
\* being equation when numbered and equation* otherwise, the same in begin and end;
\* Equation::new gives a numbered equation without label.
C23_Equation ==
    /\ (Returned(1) /\ rendered[1].kind = "Equation") =>
           LET eq == rendered[1]
               E == IF eq.numbered THEN <<"equation">> ELSE <<"equation", "*">>
           IN Output(1) =
                  <<BS, "begin", "{">> \o E \o <<"}", NL>>
                  \o (IF eq.label.some
                        THEN <<BS, "label", "{">> \o eq.label.v \o <<"}", NL>>
                        ELSE << >>)
                  \o eq.text \o <<NL>>
                  \o <<BS, "end", "{">> \o E \o <<"}", NL>>
    /\ tree.kind = "Equation" =>
           /\ EquationNew(tree.text).numbered
           /\ ~EquationNew(tree.text).label.some
           /\ Render(EquationNew(tree.text)) =
                  <<BS, "begin", "{", "equation", "}", NL>> \o tree.text
                  \o <<NL, BS, "end", "{", "equation", "}", NL>>

\* C23's case: an unnumbered equation whose label was set after construction was
\* rendered.
C23_Witness ==
    /\ Returned(1)
    /\ rendered[1] = Equation(<<"a">>, Some(<<"a">>), FALSE)
    /\ Output(1) = <<BS, "begin", "{", "equation", "*", "}", NL,
                     BS, "label", "{", "a", "}", NL,
                     "a", NL,
                     BS, "end", "{", "equation", "*", "}", NL>>

\* The header line of an environment, as C4 states it.
HeaderTex(env) ==
    <<BS, "begin", "{">> \o env.enving_name \o <<"}">>
    \o Concat([i \in 1..Len(env.params) |-> <<"{">> \o env.params[i] \o <<"}">>])
    \o (IF Len(env.optional_params) > 0
          THEN <<"[">> \o Join(env.optional_params, <<",">>) \o <<"]">>
          ELSE << >>)
    \o <<NL>>

\* C24 as stated: after the header line come the children, each with one line break,
\* and the \end line; and every environment without children renders exactly
\* \begin{<name>}, a line break, \end{<name>} and a line break.
C24_EmptyIsBeginEnd ==
    Returned(1) =>
        LET env == rendered[1] IN
        /\ Output(1) =
               HeaderTex(env)
               \o Concat([i \in 1..Len(env.elements) |-> Render(env.elements[i]) \o <<NL>>])
               \o <<BS, "end", "{">> \o env.enving_name \o <<"}", NL>>
        /\ env.elements = << >> =>
               Output(1) = <<BS, "begin", "{">> \o env.enving_name \o <<"}", NL>>
                           \o <<BS, "end", "{">> \o env.enving_name \o <<"}", NL>>

\* C24, amended: after its header line an Environment renders each child followed by
\* one line break, in push order, then \end{<name>} with the name of \begin and a
\* line break; without children the output is the header line and the \end line, which
\* is \begin{<name>}, a line break, \end{<name>}, a line break when the environment
\* has no parameters; the lines given to Environment::new are each on a line of their
\* own between the two.
C24_EnvironmentBody ==
    Returned(1) =>
        LET env == rendered[1]
            End == <<BS, "end", "{">> \o env.enving_name \o <<"}", NL>>
        IN
        /\ Output(1) =
               HeaderTex(env)
               \o Concat([i \in 1..Len(env.elements) |-> Render(env.elements[i]) \o <<NL>>])
               \o End
        /\ env.elements = << >> => Output(1) = HeaderTex(env) \o End
        /\ (env.elements = << >> /\ env.params = << >> /\ env.optional_params = << >>) =>
               Output(1) = <<BS, "begin", "{">> \o env.enving_name \o <<"}", NL>> \o End
        /\ \A ps \in OptionalParamLists, os \in OptionalParamLists :
               env = EnvironmentNew(env.enving_name, <<<<"a">>>>, ps, os) =>
                   Output(1) = HeaderTex(env) \o <<"a", NL>> \o End

\* C24's case: an environment built by Environment::new from a line of text, with a
\* command pushed after it, was rendered.
C24_Witness ==
    /\ Returned(1)
    /\ rendered[1] = PushElement(EnvironmentNew(<<"b">>, <<<<"a">>>>, None, None),
                                 LineCommand("BigSkip"))
    /\ Output(1) = <<BS, "begin", "{", "b", "}", NL, "a", NL>>
                   \o Render(LineCommand("BigSkip")) \o <<NL>>
                   \o <<BS, "end", "{", "b", "}", NL>>

\* The elements es with those from place i to place j wrapped in one Container.
Wrapped(es, i, j) ==
    SubSeq(es, 1, i - 1)
    \o <<[kind |-> "Container", elements |-> SubSeq(es, i, j)]>>
    \o SubSeq(es, j + 1, Len(es))

\* C25: a Container renders the concatenation of its children's renderings in push
\* order and nothing else, nothing at all when it is empty; wrapping it, or any run
\* of its children, in a further Container leaves the output as it is, and a
\* Part-class Document with the same elements renders the same.
C25_ContainerTransparent ==
    (Returned(1) /\ rendered[1].kind = "Container") =>
        LET c == rendered[1] IN
        /\ Output(1) = Concat([i \in 1..Len(c.elements) |-> Render(c.elements[i])])
        /\ c.elements = << >> => Output(1) = << >>
        /\ Render(PushElement(ContainerNew, c)) = Output(1)
        /\ \A i \in 1..(Len(c.elements) + 1) : \A j \in (i - 1)..Len(c.elements) :
               Render([c EXCEPT !.elements = Wrapped(c.elements, i, j)]) = Output(1)
        /\ Render([DocumentNew(DocumentClass("Part")) EXCEPT !.elements = c.elements]) = Output(1)

\* C25's case: a Container holding a text and a Container nested two deep around
\* another text was rendered.
C25_Witness ==
    /\ Returned(1)
    /\ rendered[1].kind = "Container"
    /\ rendered[1].elements =
           <<TextFrom(<<"a">>),
             PushElement(ContainerNew, PushElement(ContainerNew, TextFrom(<<"b">>)))>>
    /\ Output(1) = <<"a", "b">>

(***************************************************************************)
(* Building a Document                                                     *)
(***************************************************************************)
\* What one call of push, push_doc or extend is given to append.
Appended ==
    {<<e>> : e \in DocElements}
    \cup {d.elements : d \in IncludedDocs}
    \cup {<<e1, e2>> : e1, e2 \in ExtendElements}

\* The renderings of the elements es, one after the other.
ElementsTex(es) == Concat([i \in 1..Len(es) |-> Render(es[i])])

\* C26: every push, extend and push_doc call leaves the document's earlier elements
\* where they are and only appends the elements it is given, in their order, push_doc
\* taking the elements of the other document and nothing of its class, arguments or
\* preamble; and a rendering emits the children in the order of the sequence.
C26_AppendOnly ==
    /\ [][tree' # tree =>
              /\ \E es \in Appended : tree'.elements = tree.elements \o es
              /\ tree'.class = tree.class
              /\ tree'.arguments = tree.arguments
              /\ tree'.preamble = tree.preamble]_vars
    /\ [](\A w \in Writers : Returned(w) =>
              LET doc == rendered[w]
                  tail == ElementsTex(doc.elements)
                          \o (IF doc.class.c = "Part" THEN << >>
                              ELSE <<BS, "end", "{", "document", "}", NL>>)
              IN /\ Len(tail) <= Len(Output(w))
                 /\ SubSeq(Output(w), Len(Output(w)) - Len(tail) + 1, Len(Output(w))) = tail
                 /\ doc.class.c = "Part" => Output(w) = tail)

\* C26's case: a document that got an element by push and then one by push_doc from a
\* document of another class with a title was rendered.
C26_Witness ==
    /\ Returned(1)
    /\ rendered[1].class.c = "Article"
    /\ ~rendered[1].preamble.title.some
    /\ rendered[1].elements = <<LineCommand("TitlePage"), TextFrom(<<"b">>)>>
    /\ tree = rendered[1]

(***************************************************************************)
(* Title and author of a Preamble                                          *)
(***************************************************************************)
\* The line \k{<text>} of an optional text, nothing if it is not set.
OptionLine(k, o) == IF o.some THEN <<BS, k, "{">> \o o.v \o <<"}", NL>> ELSE << >>

\* How often the command \k occurs in a text.
Keyword(out, k) == Cardinality({j \in 1..(Len(out) - 1) : out[j] = BS /\ out[j + 1] = k})

\* The text out ends with the title line and the author line of pre, in this order,
\* each present iff the field is set; before them comes the content, and neither
\* command occurs anywhere else.
TitleAuthorLast(pre, out) ==
    LET tail == OptionLine("title", pre.title) \o OptionLine("author", pre.author)
        n == Len(out) - Len(tail)
    IN /\ n >= 0
       /\ SubSeq(out, n + 1, Len(out)) = tail
       /\ IsPrefix(ContentsTex(pre.contents), SubSeq(out, 1, n))
       /\ Keyword(out, "title") = (IF pre.title.some THEN 1 ELSE 0)
       /\ Keyword(out, "author") = (IF pre.author.some THEN 1 ELSE 0)

\* C27: whatever calls built a Preamble, its rendering has a \title{..} line iff a
\* title is set and an \author{..} line iff an author is set, each once, the title
\* line before the author line and both after all content; a further title() or
\* author() call replaces the value, so the line carries the value set last.
C27_TitleAuthor ==
    /\ Returned(1) => TitleAuthorLast(rendered[1], Output(1))
    /\ \A name \in {<<"a">>, <<"b">>} :
           LET t == PreambleTitle(tree, name)
               a == PreambleAuthor(tree, name)
           IN /\ t.title = Some(name) /\ t.author = tree.author /\ t.contents = tree.contents
              /\ a.author = Some(name) /\ a.title = tree.title /\ a.contents = tree.contents
              /\ TitleAuthorLast(t, Render(t))
              /\ TitleAuthorLast(a, Render(a))

\* C27's case: a preamble with a package, a title and an author was rendered, and a
\* preamble whose title is already set is about to get another one.
C27_Witness ==
    /\ Returned(1)
    /\ tree = rendered[1]
    /\ tree.title = Some(<<"b">>)
    /\ Output(1) = <<BS, "usepackage", "{", "a", "}", NL, NL,
                     BS, "title", "{", "b", "}", NL,
                     BS, "author", "{", "a", "}", NL>>

(***************************************************************************)
(* Termination of the traversal                                            *)
(***************************************************************************)
\* C28: a rendering under way on a sink whose writes are accepted comes to its end
\* with every node of the tree rendered once, in depth-first document order: the
\* call returns Ok and the output is the whole rendering of the tree; only an error
\* of the sink ends it earlier.
C28_RendersEveryNode ==
    \A w \in Writers :
        InCall(w) ~> (pc[w] = "err" \/ (Returned(w) /\ Output(w) = Render(rendered[w])))

(***************************************************************************)
(* The label of an Align                                                   *)
(***************************************************************************)
\* The equations of the Align a that have a label.
LabelledRows(a) == {i \in 1..Len(a.items) : a.items[i].label.some}

C30_KeywordOfType ==
    Returned(1) => IsPrefix(<<BS>> \o SectionTex(rendered[1].kind), Output(1))

=============================================================================
